---- MODULE Spec2Model ----
(***************************************************************************)
(* x402-swarm: the prepare/upload token lifecycle of the storage server.   *)
(* The server (index.ts) is a single Node.js process: every handler runs   *)
(* to its next await without interruption, and handlers of different       *)
(* requests interleave at the awaits only.                                 *)
(***************************************************************************)
EXTENDS Integers, Sequences, FiniteSets, TLC

(***************************************************************************)
(* Bounds of the model.                                                    *)
(***************************************************************************)
\* prepare requests of one behaviour (a request id is used once)
NumPrepare == 1
\* upload requests of one behaviour (a request id is used once)
NumUpload == 3
\* prepare calls a client makes one after the other (SpecRetry)
MaxCalls == 2
\* the highest price per chunk per block the chain quotes (SpecSizing)
MaxPrice == 100
\* the clock stops after MaxTicks steps of TickMs
MaxTicks == 6
\* token records and ivs the codec is tried on, per field
MaxRecord == 2
\* times the process is started (SpecStartup)
MaxBoots == 8
\* restarts of the serving process (SpecRestart)
MaxRestarts == 2

PrepareIds == 1..NumPrepare
UploadIds == 1..NumUpload

(***************************************************************************)
(* Program constants.                                                      *)
(***************************************************************************)
TOKEN_EXPIRY_MS == 10 * 60 * 1000
STAMP_PROPAGATION_MS == 2 * 60 * 1000
\* the period of setInterval(() => usedNonces.clear(), ...)
CLEAR_INTERVAL_MS == 5 * 60 * 1000
BLOCKS_PER_DAY == 17280
MAX_TOTAL_SIZE == 100 * 1024 * 1024
\* buyStamp: const depth = 19
STAMP_DEPTH == 19
\* the granularity of the model's clock: half a clearing period
TickMs == CLEAR_INTERVAL_MS \div 2

Tiers == {"2d", "7d", "30d"}

PRICING_TIERS ==
    [d \in Tiers |->
        CASE d = "2d" -> [price |-> "0.01", hours |-> 48, days |-> 2]
          [] d = "7d" -> [price |-> "0.03", hours |-> 24 * 7, days |-> 7]
          [] d = "30d" -> [price |-> "0.10", hours |-> 24 * 30, days |-> 30]]

\* PRICING_TIERS is an object literal: a property read also finds the members
\* it inherits from Object.prototype, which are truthy and are no tier.
ObjectPrototypeKeys == {"constructor", "toString"}

\* PRICING_TIERS[duration] as JavaScript evaluates it: "own" for a tier of the
\* table, "inherited" for a member of Object.prototype, "undefined" otherwise.
TierLookup(duration) ==
    IF duration \in Tiers THEN "own"
    ELSE IF duration \in ObjectPrototypeKeys THEN "inherited"
    ELSE "undefined"

\* !duration || !PRICING_TIERS[duration]   ("" stands for an absent parameter)
InvalidDuration(duration) ==
    duration = "" \/ TierLookup(duration) = "undefined"

\* tier.days; 0 stands for undefined (the looked-up value is not a tier)
TierDays(duration) ==
    IF TierLookup(duration) = "own" THEN PRICING_TIERS[duration].days ELSE 0

(***************************************************************************)
(* Token codec: AES-256-GCM, symbolically.  A ciphertext names the key,    *)
(* the iv and the plaintext it was made from and whether a bit of it was   *)
(* flipped afterwards; a tag is the MAC of (key, iv, ciphertext).  A token *)
(* string is iv ++ tag ++ ciphertext; "short" marks a string with fewer    *)
(* bytes than the three parts need.  The plaintext is the JSON text of the *)
(* record, a sequence of <<key, value>> members.  The string is the        *)
(* base64url text of the bytes; "ignored" marks a string that also holds   *)
(* characters the decoder skips (white space, a trailing "=").             *)
(***************************************************************************)
TOKEN_SECRET == "serverKey"
Keys == {TOKEN_SECRET, "otherKey"}
\* the iv a string carries when no encryption made it
NoIv == 0

NoRecord == [batchId |-> 0, depth |-> 0, duration |-> "", nonce |-> 0, expiry |-> 0]

\* JSON.stringify(data): the members in the order the record was built in
JSONstringify(data) ==
    << <<"batchId", data.batchId>>, <<"depth", data.depth>>,
       <<"duration", data.duration>>, <<"nonce", data.nonce>>,
       <<"expiry", data.expiry>> >>

\* JSON.parse(text) as UploadToken: each field is the value of the member
\* with its name
JSONparse(text) ==
    LET Member(key) == text[CHOOSE i \in DOMAIN text : text[i][1] = key][2]
    IN  [batchId |-> Member("batchId"), depth |-> Member("depth"),
         duration |-> Member("duration"), nonce |-> Member("nonce"),
         expiry |-> Member("expiry")]

\* cipher.update(text) + cipher.final()
Cipher(key, iv, text) == [k |-> key, iv |-> iv, pt |-> text, flipped |-> FALSE]
AuthTag(key, iv, ct) == [k |-> key, iv |-> iv, ct |-> ct, flipped |-> FALSE]

\* the token string an absent or empty uploadToken field stands for
NoToken ==
    [present |-> FALSE, ignored |-> FALSE, short |-> FALSE, iv |-> NoIv,
     tag |-> AuthTag("otherKey", NoIv,
                     Cipher("otherKey", NoIv, JSONstringify(NoRecord))),
     ct |-> Cipher("otherKey", NoIv, JSONstringify(NoRecord))]

\* Buffer.concat([iv, tag, encrypted]).toString("base64url")
ToBase64url(iv, tag, encrypted) ==
    [present |-> TRUE, ignored |-> FALSE, short |-> FALSE,
     iv |-> iv, tag |-> tag, ct |-> encrypted]

\* Buffer.from(token, "base64url") cut at the offsets 12 and 28: the bytes of
\* the string, whatever characters outside the alphabet it holds besides
FromBase64url(token) ==
    [short |-> token.short, iv |-> token.iv, tag |-> token.tag, ct |-> token.ct]

\* mutant: the iv is left out of the string
encryptTokenIvDropped(key, iv, data) ==
    LET encrypted == Cipher(key, iv, JSONstringify(data))
    IN  ToBase64url(NoIv, AuthTag(key, iv, encrypted), encrypted)

encryptTokenWith(key, iv, data) ==
    LET encrypted == Cipher(key, iv, JSONstringify(data))
    IN  ToBase64url(iv, AuthTag(key, iv, encrypted), encrypted)

\* encryptToken(data) with the iv randomBytes(12) returned
encryptToken(iv, data) == encryptTokenWith(TOKEN_SECRET, iv, data)

\* mutant: the tag is never set on the decipher, so nothing is authenticated
TagNotChecked(data) == ~data.short

\* decipher.final() accepts the tag: it is the MAC, under the server key and
\* the iv of the string, of exactly the ciphertext of the string
TagVerifies(data) ==
    /\ ~data.short
    /\ ~data.tag.flipped
    /\ data.tag.k = TOKEN_SECRET
    /\ data.tag.iv = data.iv
    /\ data.tag.ct = data.ct

\* a call in the try block of decryptToken throws (createDecipheriv,
\* setAuthTag, decipher.final or JSON.parse)
DecryptThrows(token) ==
    LET data == FromBase64url(token)
    IN  ~(TagVerifies(data) /\ ~data.ct.flipped
            /\ data.ct.k = TOKEN_SECRET /\ data.ct.iv = data.iv)

\* stands for an exception leaving a block
DecodeRaised ==
    [batchId |-> -1, depth |-> -1, duration |-> "", nonce |-> -1, expiry |-> -1]

\* the try block of decryptToken
decryptTokenTry(token) ==
    IF DecryptThrows(token)
    THEN DecodeRaised
    ELSE JSONparse(FromBase64url(token).ct.pt)

\* decryptToken(token): the record, or NoRecord for null (catch { return null })
decryptToken(token) ==
    IF decryptTokenTry(token) = DecodeRaised
    THEN NoRecord
    ELSE decryptTokenTry(token)

IsNull(tokenData) == tokenData = NoRecord

\* strings a client can send that were not returned by the server unchanged
FlipTag(token) == [token EXCEPT !.tag.flipped = TRUE]
FlipCiphertext(token) == [token EXCEPT !.ct.flipped = TRUE]
FlipIv(token) == [token EXCEPT !.iv = -token.iv]
Truncate(token) == [token EXCEPT !.short = TRUE]
\* the same characters with white space after them
AppendWhitespace(token) == [token EXCEPT !.ignored = TRUE]

(***************************************************************************)
(* Token amounts (bigint).  depth is fixed, so an amount is kept as        *)
(* chunks * 2^depth + rem; max marks maxUint256.                           *)
(***************************************************************************)
Amount(chunks, rem) == [max |-> FALSE, chunks |-> chunks, rem |-> rem]
maxUint256 == [max |-> TRUE, chunks |-> 0, rem |-> 0]
ZeroAmount == Amount(0, 0)

\* a < b
AmountLess(a, b) ==
    /\ ~a.max
    /\ \/ b.max
       \/ a.chunks < b.chunks
       \/ (a.chunks = b.chunks /\ a.rem < b.rem)

\* initialBalancePerChunk * (1n << BigInt(depth))
TotalBZZ(initialBalancePerChunk) == Amount(initialBalancePerChunk, 0)

\* a - b for b <= a, b a multiple of 2^depth (maxUint256 stays maxUint256)
AmountMinus(a, b) ==
    IF a.max THEN a ELSE Amount(a.chunks - b.chunks, a.rem)

\* mutant: the buffered balance is returned without the unit added to it
calculateBalanceForTTLNoUnit(ttlDays, pricePerChunkPerBlock) ==
    LET totalBlocks == ttlDays * BLOCKS_PER_DAY
        baseBalance == totalBlocks * pricePerChunkPerBlock
    IN  baseBalance + (baseBalance * 20) \div 100

\* calculateBalanceForTTL(ttlDays, pricePerChunkPerBlock); called with a price > 0
calculateBalanceForTTL(ttlDays, pricePerChunkPerBlock) ==
    LET totalBlocks == ttlDays * BLOCKS_PER_DAY
        baseBalance == totalBlocks * pricePerChunkPerBlock
        bufferedBalance == baseBalance + (baseBalance * 20) \div 100
    IN  bufferedBalance + 1

\* mutant: a price of zero is sized like any other
SizingThrowsOnlyForNoTier(duration, lastPrice) ==
    TierLookup(duration) # "own"

\* calculateBalanceForTTL throws: the price is zero, or BigInt(undefined)
SizingThrows(duration, lastPrice) ==
    lastPrice = 0 \/ TierLookup(duration) # "own"


(***************************************************************************)
(* Dates.  new Date(ms).toISOString() writes the instant as calendar       *)
(* fields down to the millisecond; the model keeps minutes, seconds and    *)
(* milliseconds.                                                           *)
(***************************************************************************)
toISOString(ms) ==
    [min |-> ms \div 60000, sec |-> (ms % 60000) \div 1000, ms |-> ms % 1000]

NoDate == [min |-> -1, sec |-> 0, ms |-> 0]

\* new Date(Date.now() + hours * 60 * 60 * 1000).toISOString()
toISOStringAfterHours(ms, hours) ==
    [min |-> ms \div 60000 + hours * 60, sec |-> (ms % 60000) \div 1000,
     ms |-> ms % 1000]

(***************************************************************************)
(* State.  A request that has sent its response stays visible, with what   *)
(* it was sent and what it answered, until RequestEnds retires it; nothing *)
(* else happens in between, so "now" is still the time of the response.    *)
(***************************************************************************)
VARIABLES
    now,         \* Date.now(), in ms since the process started
    nextClear,   \* when the setInterval callback is due next
    usedNonces,  \* the replay set
    chain,       \* Gnosis Chain: the contracts' state the server reads and writes
    prep,        \* the POST /prepare requests, by request
    up,          \* the POST /upload requests, by request
    issued,      \* by prepare request: the token it returned, and when (in timer
                 \* clears, -1 for never) an upload with it last passed the
                 \* replay check
    minted,      \* the token strings the 200 responses of prepare have carried
    pricing,     \* the GET /pricing request and the response it is sending
    codec,       \* a token record on its way through encryptToken and
                 \* decryptToken (SpecCodec)
    secretsFile, \* DATA_DIR/.server-secrets: the record in it, or NoSecrets
    secrets,     \* the secrets the running process holds, NoSecrets when down
    boots,       \* how many times the process has started
    client,      \* a client's full flow (CLI test command or browser upload flow)
    ui           \* the browser page: wallet, selection, upload button

hostVars == <<secretsFile, secrets, boots>>

clientVars == <<client, ui>>

vars == <<now, nextClear, usedNonces, chain, prep, up, issued, minted, pricing,
          codec, secretsFile, secrets, boots, client, ui>>

\* no secrets record (no file, or no process)
NoSecrets == [privateKey |-> 0, tokenSecret |-> 0]

\* the keys generatePrivateKey() and randomBytes(32) return at the n-th startup
GeneratedSecrets(n) == [privateKey |-> n, tokenSecret |-> n]

\* what the price callback gave: "" before it is called and when it threw
NoQuote == [threw |-> FALSE, price |-> ""]

IdlePricing == [pc |-> "idle", route |-> "", tiers |-> <<>>, duration |-> "", quote |-> NoQuote]

\* a client that has not started: requests and payments count the HTTP
\* requests and payment payloads of its fetchWithPayment call, first is the
\* status of the first response, status the one prepare ended with, clock
\* the client's Date.now(), timer when its setTimeout fires
IdleClient ==
    [kind |-> "", pc |-> "idle", requests |-> 0, payments |-> 0, first |-> 0,
     status |-> 0, readyAt |-> NoDate, timer |-> 0, uploads |-> 0, clock |-> 0,
     files |-> <<>>]

\* the page as loaded: no wallet, nothing selected, the button hidden
InitialUi ==
    [account |-> FALSE, httpClient |-> FALSE, selectedFiles |-> <<>>,
     uploadButton |-> FALSE]

IdleCodec ==
    [stage |-> "idle", data |-> NoRecord, key |-> TOKEN_SECRET, iv |-> NoIv,
     token |-> NoToken, out |-> NoRecord]

\* how many times the timer has cleared the replay set
ClearCount == nextClear \div CLEAR_INTERVAL_MS - 1

IdlePrepare ==
    [pc |-> "idle", call |-> 1, duration |-> "", lastPrice |-> 0,
     calculatedBalance |-> 0, initialBalancePerChunk |-> 0,
     batchId |-> 0, reads |-> 0, approves |-> 0, creates |-> 0,
     status |-> 0, error |-> "", uploadToken |-> NoToken,
     readyAt |-> NoDate, expiresAt |-> NoDate]

IdleUpload ==
    [pc |-> "idle", token |-> NoToken, files |-> <<>>, stage |-> "",
     delegated |-> 0, batchId |-> 0, depth |-> 0,
     status |-> 0, error |-> "", expiresAt |-> NoDate, duration |-> ""]

NotIssued == [token |-> NoToken, passEpoch |-> -1]

HealthyChain ==
    [lastPrice |-> 100, minimumBalance |-> 1, bzzBalance |-> Amount(200000000, 0),
     allowance |-> ZeroAmount, batches |-> {}]

\* the chain states a prepare request can meet
ChainInits ==
    { [lastPrice |-> lp, minimumBalance |-> mb, bzzBalance |-> bz,
       allowance |-> al, batches |-> {}] :
        lp \in {0, 100}, mb \in {1, 5000000},
        bz \in {Amount(4147200, 2^STAMP_DEPTH - 1), Amount(4147201, 0),
                Amount(200000000, 0)},
        al \in {ZeroAmount, maxUint256} }

\* no request has arrived
InitRequests ==
    /\ now = 0
    /\ nextClear = CLEAR_INTERVAL_MS
    /\ usedNonces = {}
    /\ prep = [p \in PrepareIds |-> IdlePrepare]
    /\ up = [u \in UploadIds |-> IdleUpload]
    /\ issued = [p \in PrepareIds |-> NotIssued]
    /\ minted = {}
    /\ pricing = IdlePricing
    /\ client = IdleClient
    /\ ui = InitialUi

\* the process is up: it started once and wrote its secrets
InitHost ==
    /\ secretsFile = GeneratedSecrets(1)
    /\ secrets = GeneratedSecrets(1)
    /\ boots = 1

InitServer == InitRequests /\ InitHost /\ codec = IdleCodec

Init == InitServer /\ chain = HealthyChain

InitPrepare == InitServer /\ chain \in ChainInits

\* no response is waiting to be retired
Quiet ==
    /\ \A p \in PrepareIds : prep[p].pc # "done"
    /\ \A u \in UploadIds : up[u].pc # "done"
    /\ pricing.pc # "done"

\* the response of request p or u has been sent: the request is over
RequestEnds ==
    /\ ~Quiet
    /\ prep' = [p \in PrepareIds |->
                  IF prep[p].pc = "done"
                  THEN [IdlePrepare EXCEPT !.pc = "gone", !.call = prep[p].call]
                  ELSE prep[p]]
    /\ up' = [u \in UploadIds |->
                IF up[u].pc = "done" THEN [IdleUpload EXCEPT !.pc = "gone"]
                ELSE up[u]]
    /\ pricing' = IdlePricing
    /\ UNCHANGED <<now, nextClear, usedNonces, chain, issued, minted, codec, hostVars, clientVars>>

(***************************************************************************)
(* Time and the replay-set timer.                                          *)
(***************************************************************************)
\* the clock advances; a due timer callback runs before it advances further
Tick ==
    /\ Quiet
    /\ now < MaxTicks * TickMs
    /\ now < nextClear
    /\ now' = now + TickMs
    /\ UNCHANGED <<nextClear, usedNonces, chain, prep, up, issued, minted, pricing, codec, hostVars, clientVars>>

\* mutant: the clear spares the nonces of the uploads that are in flight
TimerClearSparesInFlight ==
    /\ Quiet
    /\ now >= nextClear
    /\ usedNonces' = {n \in usedNonces :
                        \E u \in UploadIds :
                            /\ up[u].pc = "uploading"
                            /\ decryptToken(up[u].token).nonce = n}
    /\ nextClear' = nextClear + CLEAR_INTERVAL_MS
    /\ UNCHANGED <<now, chain, prep, up, issued, minted, pricing, codec, hostVars, clientVars>>

\* setInterval(() => usedNonces.clear(), 5 * 60 * 1000)
TimerClear ==
    /\ Quiet
    /\ now >= nextClear
    /\ usedNonces' = {}
    /\ nextClear' = nextClear + CLEAR_INTERVAL_MS
    /\ UNCHANGED <<now, chain, prep, up, issued, minted, pricing, codec, hostVars, clientVars>>

(***************************************************************************)
(* POST /prepare.  pc names the external call the handler is awaiting;     *)
(* each action is the handler's run from one await to the next.  reads,    *)
(* approves and creates count the chain reads, approve transactions and    *)
(* createBatch transactions the request has issued.                        *)
(***************************************************************************)
DurationInputs == Tiers \cup ObjectPrototypeKeys \cup {"", "3d"}

AwaitingChain ==
    {"lastPrice", "minimumBalance", "getBalance", "balanceOf", "allowance",
     "approve", "approveReceipt", "createBatch", "receipt"}

\* mutant: the error body is sent without res.status(code)
PrepareFailsWithout500(p, code, err) ==
    prep' = [prep EXCEPT ![p].pc = "done", ![p].status = 200, ![p].error = err]

\* mutant: the error leaves the handler and no response is sent
PrepareFailsUnanswered(p, code, err) ==
    prep' = [prep EXCEPT ![p].pc = "gone"]

\* res.status(code).json({error, ...}) ends the request without a token
PrepareFails(p, code, err) ==
    prep' = [prep EXCEPT ![p].pc = "done", ![p].status = code, ![p].error = err]

\* the request's totalBZZ
PrepTotal(p) == TotalBZZ(prep[p].initialBalancePerChunk)

\* mutant: the comparison is turned around and the smaller balance is chosen
InitialBalancePerChunkSmaller(duration, lastPrice, minimumBalance) ==
    LET calculatedBalance == calculateBalanceForTTL(TierDays(duration), lastPrice)
    IN  IF calculatedBalance < minimumBalance THEN calculatedBalance
        ELSE minimumBalance

\* calculatedBalance > minimumBalance ? calculatedBalance : minimumBalance
InitialBalancePerChunk(duration, lastPrice, minimumBalance) ==
    LET calculatedBalance == calculateBalanceForTTL(TierDays(duration), lastPrice)
    IN  IF calculatedBalance > minimumBalance THEN calculatedBalance
        ELSE minimumBalance

\* the handler starts: tier validation, then buyStamp reads lastPrice
\* (request ids are taken in order)
PrepareStart(p, duration) ==
    /\ Quiet
    /\ prep[p].pc = "idle"
    /\ IF p = 1 THEN TRUE ELSE prep[p - 1].pc # "idle"
    /\ IF InvalidDuration(duration)
       THEN prep' = [prep EXCEPT ![p].pc = "done", ![p].duration = duration,
                                 ![p].status = 400, ![p].error = "InvalidTier"]
       ELSE prep' = [prep EXCEPT ![p].pc = "lastPrice", ![p].duration = duration,
                                 ![p].reads = 1]
    /\ UNCHANGED <<now, nextClear, usedNonces, chain, up, issued, minted, pricing, codec, hostVars, clientVars>>

\* lastPrice arrives; buyStamp reads minimumInitialBalancePerChunk
LastPriceReturns(p) ==
    /\ Quiet
    /\ prep[p].pc = "lastPrice"
    /\ prep' = [prep EXCEPT ![p].pc = "minimumBalance",
                            ![p].lastPrice = chain.lastPrice,
                            ![p].reads = @ + 1]
    /\ UNCHANGED <<now, nextClear, usedNonces, chain, up, issued, minted, pricing, codec, hostVars, clientVars>>

\* the minimum arrives; sizing; buyStamp reads the xDAI balance
MinimumBalanceReturns(p) ==
    /\ Quiet
    /\ prep[p].pc = "minimumBalance"
    /\ IF SizingThrows(prep[p].duration, prep[p].lastPrice)
       THEN PrepareFails(p, 500, "SizingFailed")
       ELSE prep' = [prep EXCEPT
                ![p].pc = "getBalance",
                ![p].calculatedBalance =
                    calculateBalanceForTTL(TierDays(prep[p].duration), prep[p].lastPrice),
                ![p].initialBalancePerChunk =
                    InitialBalancePerChunk(prep[p].duration, prep[p].lastPrice,
                                           chain.minimumBalance),
                ![p].reads = @ + 1]
    /\ UNCHANGED <<now, nextClear, usedNonces, chain, up, issued, minted, pricing, codec, hostVars, clientVars>>

\* the xDAI balance arrives (a low balance only logs a warning); read balanceOf
GetBalanceReturns(p) ==
    /\ Quiet
    /\ prep[p].pc = "getBalance"
    /\ prep' = [prep EXCEPT ![p].pc = "balanceOf", ![p].reads = @ + 1]
    /\ UNCHANGED <<now, nextClear, usedNonces, chain, up, issued, minted, pricing, codec, hostVars, clientVars>>

\* mutant: the balance is read and not compared
BalanceOfReturnsUnchecked(p) ==
    /\ Quiet
    /\ prep[p].pc = "balanceOf"
    /\ prep' = [prep EXCEPT ![p].pc = "allowance", ![p].reads = @ + 1]
    /\ UNCHANGED <<now, nextClear, usedNonces, chain, up, issued, minted, pricing, codec, hostVars, clientVars>>

\* the BZZ balance arrives; too low throws, otherwise read the allowance
BalanceOfReturns(p) ==
    /\ Quiet
    /\ prep[p].pc = "balanceOf"
    /\ IF AmountLess(chain.bzzBalance, PrepTotal(p))
       THEN PrepareFails(p, 500, "InsufficientFunds")
       ELSE prep' = [prep EXCEPT ![p].pc = "allowance", ![p].reads = @ + 1]
    /\ UNCHANGED <<now, nextClear, usedNonces, chain, up, issued, minted, pricing, codec, hostVars, clientVars>>

\* mutant: approve is submitted whatever the allowance read
AllowanceReturnsAlwaysApproves(p) ==
    /\ Quiet
    /\ prep[p].pc = "allowance"
    /\ prep' = [prep EXCEPT ![p].pc = "approve", ![p].approves = @ + 1]
    /\ UNCHANGED <<now, nextClear, usedNonces, chain, up, issued, minted, pricing, codec, hostVars, clientVars>>

\* the allowance arrives; too low submits approve, otherwise createBatch
AllowanceReturns(p) ==
    /\ Quiet
    /\ prep[p].pc = "allowance"
    /\ IF AmountLess(chain.allowance, PrepTotal(p))
       THEN prep' = [prep EXCEPT ![p].pc = "approve", ![p].approves = @ + 1]
       ELSE prep' = [prep EXCEPT ![p].pc = "createBatch", ![p].creates = @ + 1]
    /\ UNCHANGED <<now, nextClear, usedNonces, chain, up, issued, minted, pricing, codec, hostVars, clientVars>>

\* the approve transaction's hash arrives; wait for its receipt
ApproveReturns(p) ==
    /\ Quiet
    /\ prep[p].pc = "approve"
    /\ prep' = [prep EXCEPT ![p].pc = "approveReceipt"]
    /\ UNCHANGED <<now, nextClear, usedNonces, chain, up, issued, minted, pricing, codec, hostVars, clientVars>>

\* the approve receipt arrives (its status is not read); submit createBatch
ApproveReceiptReturns(p, mined) ==
    /\ Quiet
    /\ prep[p].pc = "approveReceipt"
    /\ chain' = IF mined THEN [chain EXCEPT !.allowance = maxUint256] ELSE chain
    /\ prep' = [prep EXCEPT ![p].pc = "createBatch", ![p].creates = @ + 1]
    /\ UNCHANGED <<now, nextClear, usedNonces, up, issued, minted, pricing, codec, hostVars, clientVars>>

\* the createBatch transaction's hash arrives; wait for its receipt
CreateBatchReturns(p) ==
    /\ Quiet
    /\ prep[p].pc = "createBatch"
    /\ prep' = [prep EXCEPT ![p].pc = "receipt"]
    /\ UNCHANGED <<now, nextClear, usedNonces, chain, up, issued, minted, pricing, codec, hostVars, clientVars>>

\* the contract accepts createBatch: it can pull the total from the owner
BatchAccepted(p) ==
    /\ ~AmountLess(chain.allowance, PrepTotal(p))
    /\ ~AmountLess(chain.bzzBalance, PrepTotal(p))
    /\ prep[p].initialBalancePerChunk >= chain.minimumBalance

\* the batch id the contract derives for the batch it creates next
NextBatchId == Cardinality(chain.batches) + 1

\* mutant: the nonce is drawn once per client, not once per call
FreshNoncePerClient(p) == p

\* randomBytes(16).toString("hex") of the request: fresh (a client's later
\* call gets a nonce no earlier call got)
FreshNonce(p) == p + NumPrepare * (prep[p].call - 1)

\* randomBytes(12) of the request's encryptToken: fresh
FreshIv(p) == p

\* mutant: the token expires after the propagation delay
TokenDataShortLived(p, batchId, nonce, t) ==
    [batchId |-> batchId, depth |-> STAMP_DEPTH, duration |-> prep[p].duration,
     nonce |-> nonce, expiry |-> t + STAMP_PROPAGATION_MS]

\* the token record the handler builds
TokenData(p, batchId, nonce, t) ==
    [batchId |-> batchId, depth |-> STAMP_DEPTH, duration |-> prep[p].duration,
     nonce |-> nonce, expiry |-> t + TOKEN_EXPIRY_MS]

\* the token string of the 200 response
MintToken(p, batchId) ==
    encryptToken(FreshIv(p), TokenData(p, batchId, FreshNonce(p), now))

\* mutant: the two delays of the response are swapped
PrepareSucceedsSwapped(p, batchId) ==
    /\ prep' = [prep EXCEPT
            ![p].pc = "done", ![p].status = 200, ![p].batchId = batchId,
            ![p].uploadToken = MintToken(p, batchId),
            ![p].readyAt = toISOString(now + TOKEN_EXPIRY_MS),
            ![p].expiresAt = toISOString(now + STAMP_PROPAGATION_MS)]
    /\ issued' = [issued EXCEPT ![p].token = MintToken(p, batchId)]
    /\ minted' = minted \cup {MintToken(p, batchId)}

\* the 200 response
PrepareSucceeds(p, batchId) ==
    /\ prep' = [prep EXCEPT
            ![p].pc = "done", ![p].status = 200, ![p].batchId = batchId,
            ![p].uploadToken = MintToken(p, batchId),
            ![p].readyAt = toISOString(now + STAMP_PROPAGATION_MS),
            ![p].expiresAt = toISOString(now + TOKEN_EXPIRY_MS)]
    /\ issued' = [issued EXCEPT ![p].token = MintToken(p, batchId)]
    /\ minted' = minted \cup {MintToken(p, batchId)}

\* mutant: the receipt's status is not read before the event is looked up
ReceiptReturnsStatusUnread(p, receipt) ==
    /\ Quiet
    /\ prep[p].pc = "receipt"
    /\ receipt \in {"success", "noEvent", "reverted"}
    /\ receipt # "reverted" => BatchAccepted(p)
    /\ chain' = IF receipt = "reverted" THEN chain
                ELSE [chain EXCEPT
                        !.allowance = AmountMinus(@, PrepTotal(p)),
                        !.bzzBalance = AmountMinus(@, PrepTotal(p)),
                        !.batches = @ \cup {[id |-> NextBatchId, by |-> p,
                                             depth |-> STAMP_DEPTH,
                                             event |-> receipt = "success"]}]
    /\ IF receipt = "success" THEN PrepareSucceeds(p, NextBatchId)
       ELSE /\ PrepareFails(p, 500, "AllocationEventMissing")
            /\ UNCHANGED <<issued, minted>>
    /\ UNCHANGED <<now, nextClear, usedNonces, up, pricing, codec, hostVars, clientVars>>

\* mutant: the handler registers the nonce of the token it mints
ReceiptReturnsRegistersNonce(p, receipt) ==
    /\ Quiet
    /\ prep[p].pc = "receipt"
    /\ receipt \in {"success", "noEvent", "reverted"}
    /\ receipt # "reverted" => BatchAccepted(p)
    /\ chain' = IF receipt = "reverted" THEN chain
                ELSE [chain EXCEPT
                        !.allowance = AmountMinus(@, PrepTotal(p)),
                        !.bzzBalance = AmountMinus(@, PrepTotal(p)),
                        !.batches = @ \cup {[id |-> NextBatchId, by |-> p,
                                             depth |-> STAMP_DEPTH,
                                             event |-> receipt = "success"]}]
    /\ IF receipt = "success"
       THEN /\ PrepareSucceeds(p, NextBatchId)
            /\ usedNonces' = usedNonces \cup {FreshNonce(p)}
       ELSE /\ PrepareFails(p, 500, IF receipt = "reverted"
                                    THEN "ChainTransactionFailed"
                                    ELSE "AllocationEventMissing")
            /\ UNCHANGED <<issued, minted, usedNonces>>
    /\ UNCHANGED <<now, nextClear, up, pricing, codec, hostVars, clientVars>>

\* the createBatch receipt arrives: "success" (with the BatchCreated event),
\* "noEvent" (success, the event is not in the logs) or "reverted"; a batch of
\* the chain records whether its transaction logged the event
ReceiptReturns(p, receipt) ==
    /\ Quiet
    /\ prep[p].pc = "receipt"
    /\ receipt \in {"success", "noEvent", "reverted"}
    /\ receipt # "reverted" => BatchAccepted(p)
    /\ chain' = IF receipt = "reverted" THEN chain
                ELSE [chain EXCEPT
                        !.allowance = AmountMinus(@, PrepTotal(p)),
                        !.bzzBalance = AmountMinus(@, PrepTotal(p)),
                        !.batches = @ \cup {[id |-> NextBatchId, by |-> p,
                                             depth |-> STAMP_DEPTH,
                                             event |-> receipt = "success"]}]
    /\ IF receipt = "success" THEN PrepareSucceeds(p, NextBatchId)
       ELSE /\ PrepareFails(p, 500, IF receipt = "reverted"
                                    THEN "ChainTransactionFailed"
                                    ELSE "AllocationEventMissing")
            /\ UNCHANGED <<issued, minted>>
    /\ UNCHANGED <<now, nextClear, usedNonces, up, pricing, codec, hostVars, clientVars>>

\* the awaited chain call raises (RPC error, timeout): the catch answers 500
ChainCallRaises(p) ==
    /\ Quiet
    /\ prep[p].pc \in AwaitingChain
    /\ PrepareFails(p, 500, "ChainCallFailed")
    /\ UNCHANGED <<now, nextClear, usedNonces, chain, up, issued, minted, pricing, codec, hostVars, clientVars>>

PrepareStep(p) ==
        \/ \E duration \in DurationInputs : PrepareStart(p, duration)
        \/ LastPriceReturns(p)
        \/ MinimumBalanceReturns(p)
        \/ GetBalanceReturns(p)
        \/ BalanceOfReturns(p)
        \/ AllowanceReturns(p)
        \/ ApproveReturns(p)
        \/ \E mined \in BOOLEAN : ApproveReceiptReturns(p, mined)
        \/ CreateBatchReturns(p)
        \/ \E receipt \in {"success", "noEvent", "reverted"} :
                ReceiptReturns(p, receipt)
        \/ ChainCallRaises(p)

NextPrepare ==
    \/ \E p \in PrepareIds : PrepareStep(p)
    \/ RequestEnds
    \/ Tick
    \/ TimerClear

SpecPrepare == InitPrepare /\ [][NextPrepare]_vars

\* the client of request p, answered, sends its next prepare request
PrepareAgain(p) ==
    /\ Quiet
    /\ prep[p].pc = "gone"
    /\ prep[p].call < MaxCalls
    /\ prep' = [prep EXCEPT ![p] = [IdlePrepare EXCEPT !.call = prep[p].call + 1]]
    /\ UNCHANGED <<now, nextClear, usedNonces, chain, up, issued, minted, pricing, codec, hostVars, clientVars>>

\* the chain states a first prepare request meets before any approval: the
\* allowance is zero, or what an earlier manual approval of one 2d purchase left
RetryChains ==
    { [HealthyChain EXCEPT !.allowance = al] :
        al \in {ZeroAmount, Amount(4147201, 0)} }

InitRetry == InitServer /\ chain \in RetryChains

\* SpecRetry: the first client calls prepare again after each answer, next
\* to the requests of the other clients
NextRetry ==
    \/ \E p \in PrepareIds : PrepareStep(p)
    \/ PrepareAgain(1)
    \/ RequestEnds

SpecRetry == InitRetry /\ [][NextRetry]_vars

\* the chain states sizing meets: every price up to MaxPrice, a minimum below
\* and one above the calculated balances
SizingChains ==
    { [HealthyChain EXCEPT !.lastPrice = lp, !.minimumBalance = mb] :
        lp \in 0..MaxPrice, mb \in {1, 5000000} }

InitSizing == InitServer /\ chain \in SizingChains

\* SpecSizing: one prepare request over the prices and minima of SizingChains
NextSizing ==
    \/ PrepareStep(1)
    \/ RequestEnds

SpecSizing == InitSizing /\ [][NextSizing]_vars

(***************************************************************************)
(* POST /upload.  The handler runs from its start to the call of           *)
(* uploader.uploadFiles without an await: the checks and the insertion     *)
(* into usedNonces are one step.  stage names the last check evaluated.    *)
(***************************************************************************)
RECURSIVE SumSizes(_)
\* files.reduce((sum, f) => sum + f.size, 0)
SumSizes(files) ==
    IF files = <<>> THEN 0 ELSE Head(files) + SumSizes(Tail(files))

\* mutant: the expiry instant itself counts as expired
ExpiredAtExpiry(t, expiry) == t >= expiry

\* Date.now() > tokenData.expiry
Expired(t, expiry) == t > expiry

\* mutant: the membership test is left out
ReplayHitSkipped(nonce, used) == FALSE

\* usedNonces.has(tokenData.nonce)
ReplayHit(nonce, used) == nonce \in used

\* mutant: the nonce is inserted only after the upload has succeeded
MarkUsedOnSuccess(used, nonce) == used

\* usedNonces.add(tokenData.nonce)
MarkUsed(used, nonce) == used \cup {nonce}

\* mutant: a total of exactly the cap is refused
TooLargeAtCap(totalSize) == totalSize >= MAX_TOTAL_SIZE

\* totalSize > MAX_TOTAL_SIZE
TooLarge(totalSize) == totalSize > MAX_TOTAL_SIZE

Reject(code, err, stage, used) ==
    [status |-> code, error |-> err, stage |-> stage, used |-> used]

\* mutant: the files are validated before the token is looked at
UploadChecksFilesFirst(token, files, t, used) ==
    IF Len(files) = 0 THEN Reject(400, "NoFiles", "ValidateFiles", used)
    ELSE IF TooLarge(SumSizes(files))
    THEN Reject(400, "PayloadTooLarge", "ValidateSize", used)
    ELSE IF ~token.present THEN Reject(400, "MissingToken", "TokenPresent", used)
    ELSE LET tokenData == decryptToken(token) IN
    IF IsNull(tokenData) THEN Reject(401, "InvalidToken", "DecodeToken", used)
    ELSE IF Expired(t, tokenData.expiry)
    THEN Reject(401, "TokenExpired", "CheckExpiry", used)
    ELSE IF ReplayHit(tokenData.nonce, used)
    THEN Reject(401, "TokenAlreadyUsed", "CheckReplay", used)
    ELSE Reject(0, "", "Delegate", MarkUsed(used, tokenData.nonce))

\* mutant: the replay check comes before the expiry check
UploadChecksReplayFirst(token, files, t, used) ==
    IF ~token.present THEN Reject(400, "MissingToken", "TokenPresent", used)
    ELSE LET tokenData == decryptToken(token) IN
    IF IsNull(tokenData) THEN Reject(401, "InvalidToken", "DecodeToken", used)
    ELSE IF ReplayHit(tokenData.nonce, used)
    THEN Reject(401, "TokenAlreadyUsed", "CheckReplay", used)
    ELSE IF Expired(t, tokenData.expiry)
    THEN Reject(401, "TokenExpired", "CheckExpiry", used)
    ELSE LET marked == MarkUsed(used, tokenData.nonce) IN
    IF Len(files) = 0 THEN Reject(400, "NoFiles", "ValidateFiles", marked)
    ELSE IF TooLarge(SumSizes(files))
    THEN Reject(400, "PayloadTooLarge", "ValidateSize", marked)
    ELSE Reject(0, "", "Delegate", marked)

\* the handler's checks in the order of the code: the response it sends (status
\* 0 when it goes on to the storage client) and the replay set it leaves
UploadChecks(token, files, t, used) ==
    IF ~token.present THEN Reject(400, "MissingToken", "TokenPresent", used)
    ELSE LET tokenData == decryptToken(token) IN
    IF IsNull(tokenData) THEN Reject(401, "InvalidToken", "DecodeToken", used)
    ELSE IF Expired(t, tokenData.expiry)
    THEN Reject(401, "TokenExpired", "CheckExpiry", used)
    ELSE IF ReplayHit(tokenData.nonce, used)
    THEN Reject(401, "TokenAlreadyUsed", "CheckReplay", used)
    ELSE LET marked == MarkUsed(used, tokenData.nonce) IN
    IF Len(files) = 0 THEN Reject(400, "NoFiles", "ValidateFiles", marked)
    ELSE IF TooLarge(SumSizes(files))
    THEN Reject(400, "PayloadTooLarge", "ValidateSize", marked)
    ELSE Reject(0, "", "Delegate", marked)

\* the token strings returned by prepare so far
MintedTokens == {issued[p].token : p \in {q \in PrepareIds : issued[q].token.present}}

\* a token sealed under a key that is not the server's
ForgedToken ==
    encryptTokenWith("otherKey", NoIv,
        [batchId |-> 99, depth |-> STAMP_DEPTH, duration |-> "30d", nonce |-> 99,
         expiry |-> (MaxTicks + 1) * TickMs + TOKEN_EXPIRY_MS])

\* the uploadToken fields a client can send
TokenInputs ==
    {NoToken, ForgedToken}
        \cup MintedTokens
        \cup {FlipTag(t) : t \in MintedTokens}
        \cup {FlipCiphertext(t) : t \in MintedTokens}
        \cup {FlipIv(t) : t \in MintedTokens}
        \cup {Truncate(t) : t \in MintedTokens}

\* the file sets a client can send: none, exactly the cap, one byte more
FileInputs ==
    {<<>>, <<MAX_TOTAL_SIZE - 1, 1>>, <<MAX_TOTAL_SIZE, 1>>}

\* the checks passed the replay check: the nonce was inserted
PassedReplay(stage) == stage \in {"ValidateFiles", "ValidateSize", "Delegate"}

\* the request arrives and the handler runs to its response or to uploadFiles
\* (request ids are taken in order)
UploadHandle(u, token, files) ==
    /\ Quiet
    /\ up[u].pc = "idle"
    /\ IF u = 1 THEN TRUE ELSE up[u - 1].pc # "idle"
    /\ LET r == UploadChecks(token, files, now, usedNonces)
           tokenData == decryptToken(token)
           n == tokenData.nonce
       IN  \* files (req.files) is read after the nonce was inserted
           /\ usedNonces' = r.used
           /\ up' = [up EXCEPT
                ![u].token = token, ![u].stage = r.stage,
                ![u].files = IF PassedReplay(r.stage) THEN files ELSE <<>>,
                ![u].status = r.status, ![u].error = r.error,
                ![u].pc = IF r.status = 0 THEN "uploading" ELSE "done",
                ![u].delegated = IF r.status = 0 THEN 1 ELSE 0,
                ![u].batchId = IF r.status = 0 THEN tokenData.batchId ELSE 0,
                ![u].depth = IF r.status = 0 THEN tokenData.depth ELSE 0]
           /\ issued' = IF PassedReplay(r.stage)
                        THEN [issued EXCEPT ![n].passEpoch = ClearCount]
                        ELSE issued
    /\ UNCHANGED <<now, nextClear, chain, prep, minted, pricing, codec, hostVars, clientVars>>

\* mutant: the expiry is advertised for the longest tier and a file count
UploadFilesReturnsLongestTier(u, ok) ==
    /\ Quiet
    /\ up[u].pc = "uploading"
    /\ up' = IF ok
             THEN [up EXCEPT
                ![u].pc = "done", ![u].status = 200, ![u].stage = "Respond",
                ![u].duration = "30d",
                ![u].expiresAt =
                    toISOStringAfterHours(now, Len(up[u].files) * PRICING_TIERS["30d"].hours)]
             ELSE [up EXCEPT
                ![u].pc = "done", ![u].status = 500, ![u].error = "UploadFailed"]
    /\ UNCHANGED <<now, nextClear, usedNonces, chain, prep, issued, minted, pricing, codec, hostVars, clientVars>>

\* mutant: an upload that failed gives its nonce back
UploadFilesReturnsReleasesNonce(u, ok) ==
    /\ Quiet
    /\ up[u].pc = "uploading"
    /\ LET tokenData == decryptToken(up[u].token) IN
       /\ up' = IF ok
                THEN [up EXCEPT
                   ![u].pc = "done", ![u].status = 200, ![u].stage = "Respond",
                   ![u].duration = tokenData.duration,
                   ![u].expiresAt =
                       toISOStringAfterHours(now, PRICING_TIERS[tokenData.duration].hours)]
                ELSE [up EXCEPT
                   ![u].pc = "done", ![u].status = 500, ![u].error = "UploadFailed"]
       /\ usedNonces' = IF ok THEN usedNonces ELSE usedNonces \ {tokenData.nonce}
    /\ UNCHANGED <<now, nextClear, chain, prep, issued, minted, pricing, codec, hostVars, clientVars>>

\* uploader.uploadFiles returns (ok) or raises: the 200 or the 500 response
UploadFilesReturns(u, ok) ==
    /\ Quiet
    /\ up[u].pc = "uploading"
    /\ LET tokenData == decryptToken(up[u].token) IN
       up' = IF ok
             THEN [up EXCEPT
                ![u].pc = "done", ![u].status = 200, ![u].stage = "Respond",
                ![u].duration = tokenData.duration,
                ![u].expiresAt =
                    toISOStringAfterHours(now, PRICING_TIERS[tokenData.duration].hours)]
             ELSE [up EXCEPT
                ![u].pc = "done", ![u].status = 500, ![u].error = "UploadFailed"]
    /\ UNCHANGED <<now, nextClear, usedNonces, chain, prep, issued, minted, pricing, codec, hostVars, clientVars>>

UploadStep ==
    \E u \in UploadIds :
        \/ \E token \in TokenInputs, files \in FileInputs : UploadHandle(u, token, files)
        \/ \E ok \in BOOLEAN : UploadFilesReturns(u, ok)

(***************************************************************************)
(* Prices: GET /pricing and the price callback the payment layer calls for *)
(* a POST /prepare request before the handler runs.                        *)
(***************************************************************************)
\* the own keys of PRICING_TIERS in the order Object.entries walks them
TierEntries == <<"2d", "7d", "30d">>

\* the tiers array of the GET /pricing response
PricingListing ==
    [i \in DOMAIN TierEntries |->
        [tier |-> TierEntries[i],
         price |-> PRICING_TIERS[TierEntries[i]].price,
         duration |-> <<PRICING_TIERS[TierEntries[i]].hours, " hours">>]]

\* the price callback of routes["POST /prepare"]: a member inherited from
\* Object.prototype passes the test and has no price
PriceOf(duration) ==
    IF InvalidDuration(duration) THEN [threw |-> TRUE, price |-> ""]
    ELSE IF TierLookup(duration) = "own"
    THEN [threw |-> FALSE, price |-> PRICING_TIERS[duration].price]
    ELSE [threw |-> FALSE, price |-> "undefined"]

GetPricing ==
    /\ Quiet
    /\ pricing' = [IdlePricing EXCEPT !.pc = "done", !.route = "GET /pricing",
                                      !.tiers = PricingListing]
    /\ UNCHANGED <<now, nextClear, usedNonces, chain, prep, up, issued, minted, codec, hostVars, clientVars>>

PriceCalled(duration) ==
    /\ Quiet
    /\ pricing' = [IdlePricing EXCEPT !.pc = "done", !.route = "POST /prepare",
                                      !.duration = duration, !.quote = PriceOf(duration)]
    /\ UNCHANGED <<now, nextClear, usedNonces, chain, prep, up, issued, minted, codec, hostVars, clientVars>>

\* SpecPricing: price requests next to one prepare request
NextPricing ==
    \/ GetPricing
    \/ \E duration \in DurationInputs : PriceCalled(duration)
    \/ PrepareStep(1)
    \/ RequestEnds

SpecPricing == Init /\ [][NextPricing]_vars

\* Spec follows one token through its life: the first prepare request, every
\* upload request, GET /pricing and the timer.  A prepare handler reads and
\* writes nothing of another token or of the replay set; SpecPrepare
\* interleaves prepare requests.
Next ==
    \/ PrepareStep(1)
    \/ UploadStep
    \/ GetPricing
    \/ RequestEnds
    \/ Tick
    \/ TimerClear

Spec == Init /\ [][Next]_vars

\* the chain call request p awaits returns or raises and the handler goes on
ExternalCallReturns(p) == prep[p].pc \in AwaitingChain /\ PrepareStep(p)

\* SpecLive: the requests of Spec at one time of the clock, where every
\* external call returns or raises in the end and every response is written
\* out.  The event loop runs a callback that is ready after finitely many
\* others, whatever other requests arrive meanwhile, hence strong fairness.
NextLive ==
    \/ PrepareStep(1)
    \/ UploadStep
    \/ GetPricing
    \/ RequestEnds

SpecLive ==
    /\ Init /\ [][NextLive]_vars
    /\ SF_vars(ExternalCallReturns(1))
    /\ \A u \in UploadIds : SF_vars(\E ok \in BOOLEAN : UploadFilesReturns(u, ok))
    /\ WF_vars(RequestEnds)

(***************************************************************************)
(* The token codec on its own: a record and the iv randomBytes(12) returns *)
(* are drawn, encryptToken makes the string, the string may be changed on  *)
(* its way, decryptToken reads it.  A string made under another key is     *)
(* the forger's.                                                           *)
(***************************************************************************)
TokenRecords ==
    [batchId : 1..MaxRecord, depth : {STAMP_DEPTH}, duration : Tiers,
     nonce : 1..MaxRecord, expiry : {k * TickMs : k \in 1..MaxRecord}]

Ivs == 1..MaxRecord

InitCodec ==
    /\ InitRequests /\ InitHost /\ chain = HealthyChain
    /\ codec \in {[IdleCodec EXCEPT !.stage = "input", !.data = r, !.key = k, !.iv = iv] :
                     r \in TokenRecords, k \in Keys, iv \in Ivs}

Encode ==
    /\ codec.stage = "input"
    /\ codec' = [codec EXCEPT !.stage = "encoded",
                              !.token = encryptTokenWith(codec.key, codec.iv, codec.data)]
    /\ UNCHANGED <<now, nextClear, usedNonces, chain, prep, up, issued, minted, pricing, hostVars, clientVars>>

\* the string is changed between the response that carried it and the request
\* that brings it back
Corrupt ==
    /\ codec.stage = "encoded"
    /\ \E changed \in {FlipIv(codec.token), FlipTag(codec.token),
                        FlipCiphertext(codec.token), Truncate(codec.token),
                        AppendWhitespace(codec.token)} :
           codec' = [codec EXCEPT !.stage = "received", !.token = changed]
    /\ UNCHANGED <<now, nextClear, usedNonces, chain, prep, up, issued, minted, pricing, hostVars, clientVars>>

Decode ==
    /\ codec.stage \in {"encoded", "received"}
    /\ codec' = [codec EXCEPT !.stage = "decoded", !.out = decryptToken(codec.token)]
    /\ UNCHANGED <<now, nextClear, usedNonces, chain, prep, up, issued, minted, pricing, hostVars, clientVars>>

NextCodec == Encode \/ Corrupt \/ Decode

SpecCodec == InitCodec /\ [][NextCodec]_vars


(***************************************************************************)
(* Startup.  The module loads its secrets once, before it serves; the      *)
(* process is stopped and started again by its host.                       *)
(***************************************************************************)
InitStartup ==
    /\ InitRequests /\ chain = HealthyChain /\ codec = IdleCodec
    /\ secretsFile = NoSecrets
    /\ secrets = NoSecrets
    /\ boots = 0

\* const secrets = loadOrCreateSecrets(): readOk is whether readFileSync and
\* JSON.parse return, writeOk whether writeFileSync returns (a throw there
\* ends the process)
Startup(readOk, writeOk) ==
    /\ secrets = NoSecrets
    /\ boots < MaxBoots
    /\ boots' = boots + 1
    /\ IF secretsFile # NoSecrets /\ readOk
       THEN secrets' = secretsFile /\ UNCHANGED secretsFile
       ELSE IF writeOk
       THEN /\ secrets' = GeneratedSecrets(boots + 1)
            /\ secretsFile' = GeneratedSecrets(boots + 1)
       ELSE UNCHANGED <<secrets, secretsFile>>
    /\ UNCHANGED <<now, nextClear, usedNonces, chain, prep, up, issued, minted, pricing, codec, clientVars>>

\* the process ends
Shutdown ==
    /\ secrets # NoSecrets
    /\ secrets' = NoSecrets
    /\ UNCHANGED <<secretsFile, boots>>
    /\ UNCHANGED <<now, nextClear, usedNonces, chain, prep, up, issued, minted, pricing, codec, clientVars>>

\* the host loses the file (a volume that is not persistent)
SecretsFileRemoved ==
    /\ secretsFile # NoSecrets
    /\ secretsFile' = NoSecrets
    /\ UNCHANGED <<secrets, boots>>
    /\ UNCHANGED <<now, nextClear, usedNonces, chain, prep, up, issued, minted, pricing, codec, clientVars>>

\* the process is stopped and started again while it serves: the requests in
\* flight are lost, the module is loaded again (the secrets file is read, the
\* replay set is a new empty Set, the interval timer starts anew)
Restart ==
    /\ Quiet
    /\ boots <= MaxRestarts
    /\ boots' = boots + 1
    /\ secrets' = secretsFile
    /\ UNCHANGED secretsFile
    /\ usedNonces' = {}
    /\ nextClear' = now + CLEAR_INTERVAL_MS
    /\ prep' = [p \in PrepareIds |->
                  IF prep[p].pc \in AwaitingChain
                  THEN [IdlePrepare EXCEPT !.pc = "gone", !.call = prep[p].call]
                  ELSE prep[p]]
    /\ up' = [u \in UploadIds |->
                IF up[u].pc = "uploading" THEN [IdleUpload EXCEPT !.pc = "gone"]
                ELSE up[u]]
    /\ UNCHANGED <<now, chain, issued, minted, pricing, codec, clientVars>>

\* SpecRestart: Spec with restarts of the process
NextRestart ==
    \/ PrepareStep(1)
    \/ UploadStep
    \/ RequestEnds
    \/ Tick
    \/ TimerClear
    \/ Restart

SpecRestart == Init /\ [][NextRestart]_vars

NextStartup ==
    \/ \E readOk, writeOk \in BOOLEAN : Startup(readOk, writeOk)
    \/ Shutdown
    \/ SecretsFileRemoved

SpecStartup == InitStartup /\ [][NextStartup]_vars

(***************************************************************************)
(* Properties.                                                             *)
(***************************************************************************)
\* Date.parse of an ISO string written by toISOString
DateParse(iso) == iso.min * 60000 + iso.sec * 1000 + iso.ms

\* request u is handled in this step: it arrives and its checks run
Handled(u) == up[u].pc = "idle" /\ up'[u].pc # "idle"

\* the record a token string decodes to
Decoded(token) == decryptToken(token)

\* the handler of u went on after the replay check
PassedReplayCheck(u) ==
    up[u].stage \in {"ValidateFiles", "ValidateSize", "Delegate", "Respond"}

\* the handler of u went on after the expiry check
PassedExpiryCheck(u) == PassedReplayCheck(u) \/ up[u].stage = "CheckReplay"

\* C1: for every minted token at most one upload carrying it passes CheckReplay
\* while the token is valid: an upload passes the replay check only if no
\* upload with the same token has passed it before.
C1_AtMostOnePassPerToken ==
    [][\A u \in UploadIds :
          (Handled(u) /\ PassedReplayCheck(u)')
              => issued[Decoded(up'[u].token).nonce].passEpoch = -1]_vars

\* C2: of the uploads with one valid, unexpired token that are handled between
\* two timer clears, the first passes CheckReplay and every other one is
\* answered 401 TokenAlreadyUsed, also while the first is still uploading.
C2_ExactlyOnePassBetweenClears ==
    [][\A u \in UploadIds :
          (/\ Handled(u)
           /\ ~IsNull(Decoded(up'[u].token))
           /\ now <= Decoded(up'[u].token).expiry)
              => IF issued[Decoded(up'[u].token).nonce].passEpoch = ClearCount
                 THEN /\ up'[u].status = 401
                      /\ up'[u].error = "TokenAlreadyUsed"
                      /\ up'[u].pc = "done"
                 ELSE PassedReplayCheck(u)']_vars

\* an upload is answered TokenAlreadyUsed while the upload that consumed the
\* token, after the last clear, is still with the storage client
C2_Witness ==
    \E u1, u2 \in UploadIds :
        /\ up[u1].pc = "uploading"
        /\ up[u2].pc = "done" /\ up[u2].error = "TokenAlreadyUsed"
        /\ up[u2].token = up[u1].token
        /\ issued[Decoded(up[u1].token).nonce].passEpoch = ClearCount

\* C3: an upload whose token decodes and is past its expiry is answered 401
\* TokenExpired, consumed before or not; the replay check is not evaluated
\* and the replay set stays as it was.
C3_ExpiredBeforeReplay ==
    [][\A u \in UploadIds :
          (/\ Handled(u)
           /\ ~IsNull(Decoded(up'[u].token))
           /\ now > Decoded(up'[u].token).expiry)
              => /\ up'[u].status = 401
                 /\ up'[u].error = "TokenExpired"
                 /\ up'[u].stage = "CheckExpiry"
                 /\ usedNonces' = usedNonces]_vars

\* an expired token that an upload had consumed is answered TokenExpired
C3_Witness ==
    \E u \in UploadIds :
        /\ up[u].pc = "done" /\ up[u].error = "TokenExpired"
        /\ issued[Decoded(up[u].token).nonce].passEpoch >= 0

\* C4 as claimed: an upload passes CheckExpiry only at a time strictly before
\* the token's expiry.
C4_PassesOnlyStrictlyBefore ==
    [][\A u \in UploadIds :
          (Handled(u) /\ PassedExpiryCheck(u)')
              => now < Decoded(up'[u].token).expiry]_vars

\* C4 as amended: an upload whose token decodes passes CheckExpiry exactly
\* when the time is not after the expiry; at the expiry itself it passes.
C4_PassesUntilExpiry ==
    [][\A u \in UploadIds :
          (Handled(u) /\ ~IsNull(Decoded(up'[u].token)))
              => (PassedExpiryCheck(u)' <=> now <= Decoded(up'[u].token).expiry)]_vars

\* an upload handled at the very millisecond of the expiry went on
C4_Witness ==
    \E u \in UploadIds :
        /\ up[u].pc \in {"uploading", "done"}
        /\ PassedExpiryCheck(u)
        /\ now = Decoded(up[u].token).expiry

\* C5: a nonce that passed CheckReplay since the last timer clear is in the
\* replay set, however its request went on, and an upload with that token is
\* answered TokenAlreadyUsed whatever files it brings.
C5_ConsumedOnAttempt ==
    \A p \in PrepareIds :
        issued[p].passEpoch = ClearCount
            => /\ Decoded(issued[p].token).nonce \in usedNonces
               /\ now <= Decoded(issued[p].token).expiry
                    => \A files \in FileInputs :
                          UploadChecks(issued[p].token, files, now, usedNonces).error
                              = "TokenAlreadyUsed"

\* an upload that passed the replay check ended with PayloadTooLarge
C5_Witness ==
    \E u \in UploadIds :
        /\ up[u].pc = "done" /\ up[u].error = "PayloadTooLarge"
        /\ Decoded(up[u].token).nonce \in usedNonces
        /\ issued[Decoded(up[u].token).nonce].passEpoch = ClearCount

\* C6: an uploadToken string that is not a string the server returned is
\* answered 401 InvalidToken; the replay set stays as it was and the storage
\* client is not called.
C6_InvalidTokenRejected ==
    [][\A u \in UploadIds :
          (/\ Handled(u)
           /\ up'[u].token.present
           /\ up'[u].token \notin MintedTokens)
              => /\ up'[u].status = 401
                 /\ up'[u].error = "InvalidToken"
                 /\ up'[u].delegated = 0
                 /\ up'[u].pc = "done"
                 /\ usedNonces' = usedNonces]_vars

\* a minted token with a bit of its tag flipped was answered InvalidToken
\* while the untouched token was still unused
C6_Witness ==
    \E u \in UploadIds :
        /\ up[u].pc = "done" /\ up[u].error = "InvalidToken"
        /\ up[u].token.tag.flipped
        /\ up[u].token.ct.k = TOKEN_SECRET

\* C7: a prepare request whose duration is no tier of the table is answered
\* 400 InvalidTier at once, having made no chain read and no transaction.
C7_UnknownTierNoChainCall ==
    \A p \in PrepareIds :
        (prep[p].pc \notin {"idle", "gone"} /\ prep[p].duration \notin Tiers)
            => /\ prep[p].pc = "done"
               /\ prep[p].status = 400 /\ prep[p].error = "InvalidTier"
               /\ prep[p].reads = 0 /\ prep[p].approves = 0 /\ prep[p].creates = 0

\* the batch the chain created for request p with the id the request returned
PurchaseOf(p) == {b \in chain.batches : b.by = p /\ b.id = prep[p].batchId}

\* C8: the token of a 200 response decodes to a record with the requested
\* tier, the id and depth of the batch this request's purchase created, and
\* the time of the response (the purchase is on the chain by then) plus
\* TOKEN_EXPIRY_MS as expiry.
C8_TokenBindsPurchase ==
    \A p \in PrepareIds :
        (prep[p].pc = "done" /\ prep[p].status = 200)
            => LET tokenData == Decoded(prep[p].uploadToken) IN
               /\ ~IsNull(tokenData)
               /\ prep[p].duration \in Tiers
               /\ tokenData.duration = prep[p].duration
               /\ \E b \in PurchaseOf(p) :
                     tokenData.batchId = b.id /\ tokenData.depth = b.depth
               /\ tokenData.expiry = now + 10 * 60 * 1000

\* a 30d token was minted after the clock had moved
C8_Witness ==
    \E p \in PrepareIds :
        /\ prep[p].pc = "done" /\ prep[p].status = 200
        /\ prep[p].duration = "30d" /\ now > 0

\* C9: in a 200 response readyAt is the mint time plus 2 minutes, expiresAt the
\* mint time plus 10 minutes, which is the expiry inside the token, and
\* readyAt is earlier than expiresAt.
C9_ReadyBeforeExpires ==
    \A p \in PrepareIds :
        (prep[p].pc = "done" /\ prep[p].status = 200)
            => /\ DateParse(prep[p].readyAt) = now + 2 * 60 * 1000
               /\ DateParse(prep[p].expiresAt) = now + 10 * 60 * 1000
               /\ DateParse(prep[p].expiresAt) = Decoded(prep[p].uploadToken).expiry
               /\ DateParse(prep[p].readyAt) < DateParse(prep[p].expiresAt)

\* a 200 response whose readyAt is still ahead
C9_Witness ==
    \E p \in PrepareIds :
        /\ prep[p].pc = "done" /\ prep[p].status = 200
        /\ DateParse(prep[p].readyAt) > now /\ now > 0

PurchaseFailures ==
    {"SizingFailed", "InsufficientFunds", "ChainTransactionFailed",
     "AllocationEventMissing", "ChainCallFailed"}

\* C10: a prepare response carries a token exactly when the request's purchase
\* returned a batch id; every failure of sizing or purchase is a 500 without a
\* token; a request submits createBatch at most once.
C10_TokenIffPurchased ==
    \A p \in PrepareIds :
        /\ prep[p].creates <= 1
        /\ prep[p].uploadToken.present <=> prep[p].batchId # 0
        /\ prep[p].batchId # 0 => PurchaseOf(p) # {} /\ prep[p].creates = 1
        /\ prep[p].uploadToken.present <=> prep[p].status = 200
        /\ prep[p].pc = "done" => prep[p].status \in {200, 400, 500}
        /\ prep[p].error \in PurchaseFailures
              => prep[p].status = 500 /\ ~prep[p].uploadToken.present
        /\ prep[p].status = 500 => prep[p].error \in PurchaseFailures

\* the purchase was submitted once, its receipt lacked the event: 500, no token
C10_Witness ==
    \E p \in PrepareIds :
        /\ prep[p].pc = "done" /\ prep[p].error = "AllocationEventMissing"
        /\ prep[p].creates = 1 /\ prep[p].status = 500

\* request p submits its createBatch transaction in this step
SubmitsCreateBatch(p) == prep'[p].creates > prep[p].creates

\* request p submits an approve transaction in this step
SubmitsApprove(p) == prep'[p].approves > prep[p].approves

\* C11: whenever a request submits createBatch, the allowance of the server's
\* account towards the postage contract is at least the request's totalBZZ.
C11_AllowanceCoversPurchase ==
    [][\A p \in PrepareIds :
          SubmitsCreateBatch(p) => ~AmountLess(chain'.allowance, PrepTotal(p))]_vars

\* C12: within one prepare call approve is submitted only on an allowance read
\* below the total, createBatch only after the allowance read and, if approve
\* was submitted, after its receipt; once an approval has confirmed (the
\* allowance is maxUint256) no call submits another approve.
C12_OrderedAndNoReapproval ==
    [][\A p \in PrepareIds :
          /\ SubmitsApprove(p)
                => /\ prep[p].pc = "allowance" /\ prep'[p].pc = "approve"
                   /\ AmountLess(chain.allowance, PrepTotal(p))
                   /\ prep[p].approves = 0 /\ prep[p].creates = 0
          /\ SubmitsCreateBatch(p)
                => /\ prep[p].creates = 0
                   /\ \/ /\ prep[p].pc = "allowance" /\ prep[p].approves = 0
                         /\ ~AmountLess(chain.allowance, PrepTotal(p))
                      \/ prep[p].pc = "approveReceipt" /\ prep[p].approves = 1
          /\ chain.allowance = maxUint256
                => /\ chain'.allowance = maxUint256
                   /\ ~SubmitsApprove(p)]_vars

\* after a call whose approve confirmed and whose purchase failed, the
\* client's next call has submitted createBatch without an approve
C12_Witness ==
    \E p \in PrepareIds :
        /\ prep[p].call = 2 /\ prep[p].pc = "createBatch"
        /\ prep[p].approves = 0 /\ prep[p].creates = 1
        /\ chain.allowance = maxUint256 /\ chain.batches = {}

\* the balanceOf read of request p is answered in this step
BalanceArrives(p) ==
    /\ prep[p].pc = "balanceOf"
    /\ prep'[p].pc # "balanceOf"
    /\ prep'[p].error # "ChainCallFailed"

\* C13: a BZZ balance below initialBalancePerChunk * 2^19 (the balance holds
\* fewer whole multiples of 2^19 than the per-chunk balance) ends the request
\* with InsufficientFunds (500); the request has then submitted no approve and
\* no createBatch; a balance that covers the total lets the request go on.
C13_InsufficientFundsNoTransaction ==
    [][\A p \in PrepareIds :
          BalanceArrives(p)
            => IF chain.bzzBalance.chunks < prep[p].initialBalancePerChunk
               THEN /\ prep'[p].pc = "done" /\ prep'[p].status = 500
                    /\ prep'[p].error = "InsufficientFunds"
                    /\ ~prep'[p].uploadToken.present
                    /\ prep'[p].approves = 0 /\ prep'[p].creates = 0
                    /\ chain' = chain
               ELSE prep'[p].pc = "allowance"]_vars

\* a 2d request met a balance one unit short of its total
C13_Witness ==
    \E p \in PrepareIds :
        /\ prep[p].pc = "done" /\ prep[p].error = "InsufficientFunds"
        /\ prep[p].duration = "2d" /\ prep[p].initialBalancePerChunk = 4147201
        /\ chain.bzzBalance = Amount(4147200, 524287)

\* the createBatch receipt of request p is answered in this step
ReceiptArrives(p) ==
    /\ prep[p].pc = "receipt"
    /\ prep'[p].pc = "done"
    /\ prep'[p].error # "ChainCallFailed"

\* the batches the chain creates in this step
NewBatches == chain'.batches \ chain.batches

\* C14: when the createBatch receipt arrives, the request returns a batch id
\* only if the transaction created a batch and logged BatchCreated, and the id
\* is that batch's; a transaction that created nothing ends the request with
\* ChainTransactionFailed, one that created a batch without the event with
\* AllocationEventMissing, both 500 without a token; the request has submitted
\* createBatch once and submits nothing more.
C14_IdOnlyFromSuccessfulReceipt ==
    [][\A p \in PrepareIds :
          /\ ReceiptArrives(p)
                => /\ prep'[p].creates = 1 /\ prep[p].creates = 1
                   /\ \A b \in NewBatches : b.by = p
                   /\ prep'[p].batchId # 0
                        <=> \E b \in NewBatches : b.event /\ b.id = prep'[p].batchId
                   /\ NewBatches = {}
                        => /\ prep'[p].status = 500
                           /\ prep'[p].error = "ChainTransactionFailed"
                           /\ ~prep'[p].uploadToken.present
                   /\ (\E b \in NewBatches : ~b.event)
                        => /\ prep'[p].status = 500
                           /\ prep'[p].error = "AllocationEventMissing"
                           /\ ~prep'[p].uploadToken.present
          /\ prep[p].pc = "done" => ~SubmitsCreateBatch(p) /\ ~SubmitsApprove(p)]_vars

\* a reverted createBatch: ChainTransactionFailed after one submission, and no
\* batch on the chain
C14_Witness ==
    \E p \in PrepareIds :
        /\ prep[p].pc = "done" /\ prep[p].error = "ChainTransactionFailed"
        /\ prep[p].creates = 1 /\ prep[p].batchId = 0
        /\ chain.batches = {}

\* the request has sized its purchase
Sized(p) ==
    prep[p].pc \in {"getBalance", "balanceOf", "allowance", "approve",
                    "approveReceipt", "createBatch", "receipt"}

\* the retention days of the tiers, as the pricing table lists them
DaysOf(duration) ==
    CASE duration = "2d" -> 2 [] duration = "7d" -> 7 [] duration = "30d" -> 30

\* C15: the balance calculated for days and a unit price > 0 is
\* base + floor(base * 20 / 100) + 1 with base = days * 17280 * unitPrice: the
\* result less one is the largest integer whose fivefold is at most six times
\* base; for 2 days at price 100 it is 4147201.
C15_SizeAllocationExact ==
    \A p \in PrepareIds :
        Sized(p)
          => LET base == DaysOf(prep[p].duration) * 17280 * prep[p].lastPrice
                 c == prep[p].calculatedBalance
             IN  /\ prep[p].lastPrice > 0
                 /\ 5 * (c - 1 - base) <= base
                 /\ base < 5 * (c - 1 - base) + 5
                 /\ (prep[p].duration = "2d" /\ prep[p].lastPrice = 100)
                        => c = 4147201

\* a 7d request sized at price 7
C15_Witness ==
    \E p \in PrepareIds :
        /\ Sized(p) /\ prep[p].duration = "7d" /\ prep[p].lastPrice = 7
        /\ prep[p].calculatedBalance = 1016065

\* request p has submitted createBatch with its initialBalancePerChunk
PurchaseSubmitted(p) == prep[p].pc \in {"createBatch", "receipt"}

\* C16: the per-chunk balance a request submits in createBatch is the larger
\* of the calculated balance and the chain's minimum: it is one of the two, at
\* least both, and more than days * 17280 * the price read.
C16_SubmittedBalanceIsMax ==
    \A p \in PrepareIds :
        PurchaseSubmitted(p)
          => LET ipc == prep[p].initialBalancePerChunk
                 c == prep[p].calculatedBalance
             IN  /\ ipc \in {c, chain.minimumBalance}
                 /\ ipc >= c
                 /\ ipc >= chain.minimumBalance
                 /\ ipc > DaysOf(prep[p].duration) * 17280 * prep[p].lastPrice

\* a purchase submitted with the chain's minimum, above the calculated balance
C16_Witness ==
    \E p \in PrepareIds :
        /\ PurchaseSubmitted(p)
        /\ prep[p].initialBalancePerChunk = 5000000
        /\ prep[p].calculatedBalance = 4147201

\* the hours of the tiers, as the pricing table lists them
HoursOf(duration) ==
    CASE duration = "2d" -> 48 [] duration = "7d" -> 168 [] duration = "30d" -> 720

\* C17: the 200 response of an upload carries the tier recorded in its token
\* as duration and, as expiresAt, the time of the response plus that tier's
\* hours: both are fixed by the token and the time alone, whatever files the
\* request brought.
C17_ExpiryFromTokenTier ==
    \A u \in UploadIds :
        (up[u].pc = "done" /\ up[u].status = 200)
          => LET tier == Decoded(up[u].token).duration IN
             /\ up[u].duration = tier
             /\ up[u].expiresAt.min = now \div 60000 + 60 * HoursOf(tier)
             /\ up[u].expiresAt.sec = (now % 60000) \div 1000
             /\ up[u].expiresAt.ms = now % 1000

\* a 2d token's upload of files of exactly the cap, answered after the clock
\* had moved
C17_Witness ==
    \E u \in UploadIds :
        /\ up[u].pc = "done" /\ up[u].status = 200
        /\ up[u].duration = "2d" /\ now > 0
        /\ SumSizes(up[u].files) = MAX_TOTAL_SIZE

\* the response that ends request u in this step: status, error, and the
\* check that decided it, with nothing handed to the storage client
Answers(u, status, error, stage) ==
    /\ up'[u].pc = "done"
    /\ up'[u].status = status /\ up'[u].error = error /\ up'[u].stage = stage
    /\ up'[u].delegated = 0

\* C18: an upload request is decided by the first check that fails, in the
\* order token present (400), token decodes (401), not expired (401), nonce
\* unused (401), a file present (400), total size within the cap (400); only
\* a request that passed them all is handed to the storage client, whose
\* failure is a 500 and whose success is the only 200; the replay set changes
\* only when the nonce check is passed.
C18_FirstFailingCheckDecides ==
    [][\A u \in UploadIds :
          /\ Handled(u)
                => LET token == up'[u].token
                       tokenData == Decoded(token)
                       files == up'[u].files
                   IN  IF ~token.present
                       THEN /\ Answers(u, 400, "MissingToken", "TokenPresent")
                            /\ usedNonces' = usedNonces
                       ELSE IF IsNull(tokenData)
                       THEN /\ Answers(u, 401, "InvalidToken", "DecodeToken")
                            /\ usedNonces' = usedNonces
                       ELSE IF now > tokenData.expiry
                       THEN /\ Answers(u, 401, "TokenExpired", "CheckExpiry")
                            /\ usedNonces' = usedNonces
                       ELSE IF tokenData.nonce \in usedNonces
                       THEN /\ Answers(u, 401, "TokenAlreadyUsed", "CheckReplay")
                            /\ usedNonces' = usedNonces
                       ELSE /\ usedNonces' = usedNonces \cup {tokenData.nonce}
                            /\ IF Len(files) = 0
                               THEN Answers(u, 400, "NoFiles", "ValidateFiles")
                               ELSE IF SumSizes(files) > 100 * 1024 * 1024
                               THEN Answers(u, 400, "PayloadTooLarge", "ValidateSize")
                               ELSE /\ up'[u].pc = "uploading"
                                    /\ up'[u].stage = "Delegate"
                                    /\ up'[u].delegated = 1
          /\ (up[u].pc = "uploading" /\ up'[u].pc = "done")
                => \/ up'[u].status = 200 /\ up'[u].error = ""
                   \/ up'[u].status = 500 /\ up'[u].error = "UploadFailed"
          /\ (up[u].status # 200 /\ up'[u].status = 200)
                => up[u].pc = "uploading" /\ up[u].stage = "Delegate"]_vars

\* a request with a valid unused token and no file was answered NoFiles
C18_Witness ==
    \E u \in UploadIds :
        /\ up[u].pc = "done" /\ up[u].status = 400 /\ up[u].stage = "ValidateFiles"
        /\ up[u].token \in MintedTokens
        /\ Decoded(up[u].token).nonce \in usedNonces

\* C19: files are handed to the storage client only if their sizes sum to at
\* most 100 * 1024 * 1024 bytes; of the requests that reach the size check, one
\* with a larger sum is answered 400 PayloadTooLarge and one with exactly that
\* sum is handed on.
C19_DelegatedWithinCap ==
    [][\A u \in UploadIds :
          /\ up'[u].delegated = 1
                => /\ Len(up'[u].files) > 0
                   /\ SumSizes(up'[u].files) <= 104857600
          /\ (Handled(u) /\ PassedReplayCheck(u)' /\ Len(up'[u].files) > 0)
                => IF SumSizes(up'[u].files) > 104857600
                   THEN Answers(u, 400, "PayloadTooLarge", "ValidateSize")
                   ELSE up'[u].pc = "uploading" /\ up'[u].delegated = 1]_vars

\* files of exactly 104857600 bytes in total are with the storage client
C19_Witness ==
    \E u \in UploadIds :
        /\ up[u].pc = "uploading" /\ up[u].delegated = 1
        /\ SumSizes(up[u].files) = 104857600

\* C20: a request calls the storage client at most once, when its checks have
\* passed, with the batch id and depth its token decodes to; when the client
\* raises, the request ends with 500 UploadFailed without another call, and
\* the token's nonce is still in the replay set.
C20_DelegatedOnceNonceKept ==
    [][\A u \in UploadIds :
          /\ up'[u].delegated <= 1
          /\ up'[u].delegated > up[u].delegated
                => /\ Handled(u)
                   /\ up'[u].batchId = Decoded(up'[u].token).batchId
                   /\ up'[u].depth = Decoded(up'[u].token).depth
          /\ (up[u].pc = "uploading" /\ up'[u].status = 500)
                => /\ up'[u].pc = "done" /\ up'[u].error = "UploadFailed"
                   /\ up'[u].delegated = 1
                   /\ Decoded(up[u].token).nonce \in usedNonces']_vars

\* the strings encryptToken returns under the server key
Encoded == {encryptToken(iv, r) : iv \in Ivs, r \in TokenRecords}

C22_RecordOnlyForEncoded ==
    codec.stage = "decoded"
        => /\ codec.out # DecodeRaised
           /\ ~IsNull(codec.out) => codec.token \in Encoded

\* the 200 response of request p leaves in this step
Mints(p) == prep[p].status # 200 /\ prep'[p].status = 200

C24_PersistedRecordKept ==
    [][(boots' = boots + 1 /\ secretsFile # NoSecrets)
          => /\ secretsFile' = secretsFile
             /\ secrets' # NoSecrets => secrets' = secretsFile]_vars

\* C25: between two timer clears the replay set only grows: a nonce is added
\* only by an upload that passes CheckReplay, which adds exactly the nonce
\* of its token, and nothing but the timer clear removes a nonce.
C25_GrowsBetweenClears ==
    [][/\ nextClear' = nextClear => usedNonces \subseteq usedNonces'
       /\ \A u \in UploadIds :
            (Handled(u) /\ PassedReplayCheck(u)')
                => /\ Decoded(up'[u].token).nonce \notin usedNonces
                   /\ usedNonces' = usedNonces \cup {Decoded(up'[u].token).nonce}
       /\ usedNonces' # usedNonces
            => \/ nextClear' # nextClear /\ usedNonces' = {}
               \/ \E u \in UploadIds : Handled(u) /\ PassedReplayCheck(u)']_vars

\* after a timer clear an upload has passed the replay check and failed, and
\* its nonce is still in the set
C25_Witness ==
    /\ ClearCount >= 1
    /\ \E u \in UploadIds :
          /\ up[u].pc = "done" /\ up[u].status = 500
          /\ Decoded(up[u].token).nonce \in usedNonces

\* C26: for every tier the price the callback quotes to the payment layer,
\* the price GET /pricing lists and the price of the table are the same; the
\* listing has every tier exactly once; the callback fails for a duration
\* that is no tier.
C26_OnePriceEverywhere ==
    /\ (pricing.pc = "done" /\ pricing.route = "POST /prepare")
          => IF pricing.duration \in Tiers
             THEN /\ ~pricing.quote.threw
                  /\ pricing.quote.price = PRICING_TIERS[pricing.duration].price
             ELSE pricing.quote.threw
    /\ (pricing.pc = "done" /\ pricing.route = "GET /pricing")
          => \A t \in Tiers :
                \E i \in DOMAIN pricing.tiers :
                    /\ pricing.tiers[i].tier = t
                    /\ pricing.tiers[i].price = PRICING_TIERS[t].price
                    /\ \A j \in DOMAIN pricing.tiers :
                          pricing.tiers[j].tier = t => j = i

\* a consume of the nonce of token p has happened since the last timer clear
ConsumedSinceClear(p) == issued[p].passEpoch = ClearCount

\* C27: the timer clear and a consume do not interleave: a clear empties the
\* set in one step that touches no request, a consume tests and inserts in
\* one step; so the first consume of a nonce after a clear reports new and
\* every later one before the next clear reports not new.
C27_ClearAtomicWithConsume ==
    [][/\ nextClear' # nextClear => usedNonces' = {} /\ up' = up
       /\ \A p \in PrepareIds :
            ConsumedSinceClear(p)' <=> Decoded(issued'[p].token).nonce \in usedNonces'
       /\ \A u \in UploadIds :
            (/\ Handled(u)
             /\ ~IsNull(Decoded(up'[u].token))
             /\ now <= Decoded(up'[u].token).expiry)
                => /\ PassedReplayCheck(u)'
                        <=> ~ConsumedSinceClear(Decoded(up'[u].token).nonce)
                   /\ issued'[Decoded(up'[u].token).nonce].passEpoch = ClearCount'
                   /\ nextClear' = nextClear]_vars

\* after a timer clear the first upload with the token was let through and is
\* still in flight, and a later upload with the same token has been refused
C27_Witness ==
    /\ ClearCount >= 1
    /\ up[1].pc = "uploading"
    /\ ConsumedSinceClear(Decoded(up[1].token).nonce)
    /\ up[3].pc = "done" /\ up[3].error = "TokenAlreadyUsed"
    /\ up[3].token = up[1].token

\* request r, now in state s, sends nothing after its response and ends only
\* after its response
OneResponse(r, s) ==
    /\ s.pc = "done" <=> s.status # 0
    /\ r.pc = "done" => s = r \/ s.pc = "gone"
    /\ r.pc = "gone" => s.pc = "gone"
    /\ (s.pc = "gone" /\ r.pc # "gone") => r.pc = "done"

\* C28: if every external call returns or raises in the end, every prepare
\* request and every upload request sends a response in the end, and it
\* sends exactly one: none is left without, none sends a second.
C28_ExactlyOneResponse ==
    /\ [][/\ \A p \in PrepareIds : OneResponse(prep[p], prep'[p])
          /\ \A u \in UploadIds : OneResponse(up[u], up'[u])]_vars
    /\ \A p \in PrepareIds : (prep[p].pc \in AwaitingChain) ~> (prep[p].pc = "done")
    /\ \A u \in UploadIds : (up[u].pc = "uploading") ~> (up[u].pc = "done")

\* the storage call of an upload raised and the upload has been answered,
\* after a prepare request that went through every chain call
C28_Witness ==
    /\ prep[1].pc = "gone" /\ issued[1].token # NoToken
    /\ \E u \in UploadIds :
          up[u].pc = "done" /\ up[u].status = 500 /\ up[u].error = "UploadFailed"

\* request p has read a unit price of zero and the handler runs again
ResumesAfterZeroPrice(p) ==
    /\ prep[p].pc = "minimumBalance" /\ prep[p].lastPrice = 0
    /\ prep'[p] # prep[p]

\* C29: when the unit price read from the contract is zero, sizing raises:
\* the prepare request ends there with a 500 response and no token, having
\* made no balance read, no allowance read, no approval and no purchase.
C29_ZeroPriceEndsPrepare ==
    [][\A p \in PrepareIds :
          ResumesAfterZeroPrice(p)
              => /\ prep'[p].pc = "done" /\ prep'[p].status = 500
                 /\ prep'[p].error \in {"SizingFailed", "ChainCallFailed"}
                 /\ prep'[p].uploadToken = NoToken
                 /\ UNCHANGED <<issued, minted, chain>>
                 /\ prep'[p].reads = 2
                 /\ prep'[p].approves = 0 /\ prep'[p].creates = 0]_vars

\* a request for a tier of the table was ended by the sizing of a zero price
C29_Witness ==
    \E p \in PrepareIds :
        /\ prep[p].pc = "done" /\ prep[p].error = "SizingFailed"
        /\ prep[p].duration \in Tiers /\ prep[p].lastPrice = 0
        /\ prep[p].status = 500 /\ prep[p].reads = 2

\* the handler of prepare request p runs in this step
PrepareRuns(p) == prep[p].pc \in {"idle"} \cup AwaitingChain /\ prep'[p] # prep[p]

\* the handler of upload request u runs in this step
UploadRuns(u) == up[u].pc \in {"idle", "uploading"} /\ up'[u] # up[u]

\* C30: a prepare request does not change the replay set, and the nonce of
\* the token it mints is not registered; an upload request makes no chain
\* read and no chain transaction; GET /pricing changes neither the replay
\* set nor the chain.
C30_Frame ==
    [][/\ \A p \in PrepareIds :
            PrepareRuns(p)
                => /\ usedNonces' = usedNonces
                   /\ Mints(p) => Decoded(prep'[p].uploadToken).nonce \notin usedNonces'
       /\ \A u \in UploadIds :
            UploadRuns(u) => chain' = chain /\ prep' = prep
       /\ pricing'.pc = "done"
            => usedNonces' = usedNonces /\ chain' = chain /\ prep' = prep]_vars

\* a token was minted, an upload with it is with the storage client and
\* GET /pricing is being answered; the chain holds the one batch bought
C30_Witness ==
    /\ minted # {}
    /\ pricing.pc = "done" /\ pricing.route = "GET /pricing"
    /\ Cardinality(chain.batches) = 1
    /\ \E u \in UploadIds : up[u].pc = "uploading"

\* C31: an upload with a token whose nonce was consumed, before a restart of
\* the process or after it, is answered TokenAlreadyUsed as long as the token
\* decodes and has not expired.
C31_ConsumedAcrossRestart ==
    [][\A u \in UploadIds :
          (/\ Handled(u)
           /\ ~IsNull(Decoded(up'[u].token))
           /\ now <= Decoded(up'[u].token).expiry
           /\ issued[Decoded(up'[u].token).nonce].passEpoch # -1)
              => /\ up'[u].pc = "done"
                 /\ up'[u].status = 401
                 /\ up'[u].error = "TokenAlreadyUsed"]_vars

(***************************************************************************)
(* The clients: the CLI test command (fullTest) and the upload flow of the *)
(* browser page.  Both call fetchWithPayment for POST /prepare, wait until *)
(* readyAt by their own clock and send POST /upload.  What the server and  *)
(* the wallet answer is an input.                                          *)
(***************************************************************************)
serverVars ==
    <<now, nextClear, usedNonces, chain, prep, up, issued, minted, pricing,
      codec, hostVars>>

\* the limit the page compares a selection with
UI_MAX_TOTAL_SIZE == 100 * 1024 * 1024

\* mutant: the client does not wait
WaitMsNone(readyAt, t) == 0

\* Math.max(0, new Date(readyAt).getTime() - Date.now())
WaitMs(readyAt, t) ==
    IF DateParse(readyAt) - t > 0 THEN DateParse(readyAt) - t ELSE 0

\* fetchWithPayment has returned a response with this status, or has thrown
\* (status 0): the client gives up unless the response is ok; then it reads
\* readyAt from the body, waits if readyAt is ahead of its clock, and sends
\* the upload request
AfterPrepare(c, status, readyAt) ==
    IF status # 200 THEN [c EXCEPT !.pc = "end", !.status = status]
    ELSE IF WaitMs(readyAt, c.clock) > 0
    THEN [c EXCEPT !.pc = "waiting", !.status = status, !.readyAt = readyAt,
                   !.timer = c.clock + WaitMs(readyAt, c.clock)]
    ELSE [c EXCEPT !.pc = "uploading", !.status = status, !.readyAt = readyAt,
                   !.uploads = @ + 1]

\* cli.ts test <duration> <file>: fullTest calls prepare, which sends the
\* first request of fetchWithPayment
ClientStarts ==
    /\ client.pc = "idle"
    /\ client' = [client EXCEPT !.kind = "cli", !.pc = "fetch", !.requests = 1,
                                !.files = <<1>>]
    /\ UNCHANGED ui
    /\ UNCHANGED serverVars

\* a click on the upload button, which is visible and not disabled: the
\* flow starts for the selection of that moment
UploadClicked ==
    /\ client.pc = "idle"
    /\ ui.uploadButton
    /\ client' = [client EXCEPT !.kind = "ui", !.pc = "fetch", !.requests = 1,
                                !.files = ui.selectedFiles]
    /\ UNCHANGED ui
    /\ UNCHANGED serverVars

\* the first response arrives: anything but 402 is returned as it is; on 402
\* the page throws if no wallet client was set up, otherwise the payment
\* payload is asked for
FetchReturns(status, readyAt) ==
    /\ client.pc = "fetch"
    /\ client' =
         IF status # 402
         THEN AfterPrepare([client EXCEPT !.first = status], status, readyAt)
         ELSE IF client.kind = "ui" /\ ~ui.httpClient
         THEN AfterPrepare([client EXCEPT !.first = status], 0, readyAt)
         ELSE [client EXCEPT !.first = status, !.pc = "paying"]
    /\ UNCHANGED ui
    /\ UNCHANGED serverVars

\* createPaymentPayload returns (the wallet signed) and the request is sent
\* again with the payment headers, or it throws
PaymentCreated(ok) ==
    /\ client.pc = "paying"
    /\ client' =
         IF ok
         THEN [client EXCEPT !.pc = "retry", !.payments = @ + 1, !.requests = @ + 1]
         ELSE AfterPrepare(client, 0, NoDate)
    /\ UNCHANGED ui
    /\ UNCHANGED serverVars

\* mutant: a 402 to the retried request is answered with another payment
RetryReturnsPaysAgain(status, readyAt) ==
    /\ client.pc = "retry"
    /\ client' =
         IF status = 402
         THEN [client EXCEPT !.pc = "paying"]
         ELSE AfterPrepare(client, status, readyAt)
    /\ UNCHANGED ui
    /\ UNCHANGED serverVars

\* the response to the retried request arrives: the CLI returns it whatever
\* it is, the page throws on a second 402
RetryReturns(status, readyAt) ==
    /\ client.pc = "retry"
    /\ client' =
         IF client.kind = "ui" /\ status = 402
         THEN AfterPrepare(client, 0, readyAt)
         ELSE AfterPrepare(client, status, readyAt)
    /\ UNCHANGED ui
    /\ UNCHANGED serverVars

\* the client's clock
ClientTick ==
    /\ client.clock < MaxTicks * TickMs
    /\ client' = [client EXCEPT !.clock = @ + TickMs]
    /\ UNCHANGED ui
    /\ UNCHANGED serverVars

\* the setTimeout of the wait fires and the upload request is sent
TimerFires ==
    /\ client.pc = "waiting"
    /\ client.clock >= client.timer
    /\ client' = [client EXCEPT !.pc = "uploading", !.uploads = @ + 1]
    /\ UNCHANGED ui
    /\ UNCHANGED serverVars

\* the upload response arrives; after a success the page clears the
\* selection and hides the button
UploadReturns(ok) ==
    /\ client.pc = "uploading"
    /\ client' = [client EXCEPT !.pc = "end"]
    /\ ui' = IF client.kind = "ui" /\ ok
             THEN [ui EXCEPT !.selectedFiles = <<>>, !.uploadButton = FALSE]
             ELSE ui
    /\ UNCHANGED serverVars

\* the flow has returned; the command is run again, or the button, enabled
\* again, can be clicked
ClientAgain ==
    /\ client.pc = "end"
    /\ client' = [IdleClient EXCEPT !.clock = client.clock]
    /\ UNCHANGED ui
    /\ UNCHANGED serverVars

\* handleFiles(files): the selection is replaced before its size is looked
\* at; a selection over the limit only shows an error
handleFiles(files) ==
    /\ files # <<>>
    /\ ui' = IF SumSizes(files) > UI_MAX_TOTAL_SIZE
             THEN [ui EXCEPT !.selectedFiles = files]
             ELSE [ui EXCEPT !.selectedFiles = files,
                             !.uploadButton = @ \/ ui.account]
    /\ UNCHANGED client
    /\ UNCHANGED serverVars

\* a click on the connect button, which is visible until a connection has
\* succeeded: there is no wallet, the wallet refuses, the wallet is on
\* another network (the account is kept), or the connection succeeds
ConnectWallet(outcome) ==
    /\ ~ui.httpClient
    /\ ui' = CASE outcome = "wrongNetwork" -> [ui EXCEPT !.account = TRUE]
               [] outcome = "connected" ->
                    [ui EXCEPT !.account = TRUE, !.httpClient = TRUE,
                               !.uploadButton = @ \/ Len(ui.selectedFiles) > 0]
               [] OTHER -> ui
    /\ UNCHANGED client
    /\ UNCHANGED serverVars

NextClient ==
    \/ ClientStarts
    \/ UploadClicked
    \/ \E status \in {200, 400, 402, 500}, k \in 0..MaxTicks :
          FetchReturns(status, toISOString(k * TickMs + STAMP_PROPAGATION_MS))
    \/ \E ok \in BOOLEAN : PaymentCreated(ok)
    \/ \E status \in {200, 400, 402, 500}, k \in 0..MaxTicks :
          RetryReturns(status, toISOString(k * TickMs + STAMP_PROPAGATION_MS))
    \/ ClientTick
    \/ TimerFires
    \/ \E ok \in BOOLEAN : UploadReturns(ok)
    \/ ClientAgain
    \/ \E files \in FileInputs : handleFiles(files)
    \/ \E outcome \in {"noWallet", "rejected", "wrongNetwork", "connected"} :
          ConnectWallet(outcome)

SpecClient == Init /\ [][NextClient]_vars

\* C32: in the full flow of the CLI and of the page the upload request is
\* sent only after prepare was answered with success, and not before the
\* client's clock has reached the readyAt of that answer; when prepare
\* fails no upload request is sent.
C32_UploadAfterReadyAt ==
    [][/\ client'.uploads > client.uploads
            => /\ client'.uploads = 1
               /\ client'.status = 200
               /\ client'.clock >= DateParse(client'.readyAt)
       /\ (client'.pc = "end" /\ client'.status # 200) => client'.uploads = 0]_vars

\* the page paid, was told a readyAt ahead of its clock, waited and has sent
\* the upload request
C32_Witness ==
    /\ client.kind = "ui" /\ client.pc = "uploading"
    /\ client.payments = 1 /\ client.timer > 0
    /\ client.clock >= DateParse(client.readyAt)

\* C33: one call of fetchWithPayment sends at most two requests and creates
\* at most one payment payload; the payload is created only after the first
\* request was answered 402, the request is then sent once more, and a 402
\* to that second request is not answered with another payment.
C33_AtMostOnePayment ==
    /\ client.requests <= 2
    /\ client.payments <= 1
    /\ client.payments = 1 => client.first = 402
    /\ client.requests = 2 <=> client.payments = 1

\* the CLI paid after a 402, sent the request again, was answered 402 again
\* and returned that response
C33_Witness ==
    /\ client.kind = "cli" /\ client.pc = "end"
    /\ client.first = 402 /\ client.status = 402
    /\ client.payments = 1 /\ client.requests = 2

\* C34: in the page, whatever files are selected and whenever the wallet is
\* connected, the upload button is never made visible while the selection is
\* over 100 MB, so that no flow (and with it no paid prepare) is started
\* from the page for a selection the server refuses as too large.
C34_ButtonOnlyWithinLimit ==
    [][/\ (~ui.uploadButton /\ ui'.uploadButton)
            => SumSizes(ui'.selectedFiles) <= UI_MAX_TOTAL_SIZE
       /\ (client.pc = "idle" /\ client'.pc = "fetch" /\ client'.kind = "ui")
            => SumSizes(client'.files) <= MAX_TOTAL_SIZE]_vars
====
